---- MODULE Spec2Model ----
(***************************************************************************)
(* Model of the ltchiptool GUI shell.                                      *)
(*                                                                         *)
(*   Spec       MainFrame (gui/main.py): construction, show, close, menu   *)
(*              dispatch and settings persistence.                         *)
(*   SpecPanel  BasePanel (gui/panels/base.py): worker supervision, the    *)
(*              update guard and the enable/disable passes of one panel.   *)
(*                                                                         *)
(* Names are sequences of dot-free segments: the string "plugin.demo.x"    *)
(* is <<"plugin", "demo", "x">>, so that formatting a plugin identifier    *)
(* is concatenation and two different (plugin, element) pairs can format   *)
(* to the same identifier, as they can in the program.                     *)
(***************************************************************************)
EXTENDS Integers, Sequences, FiniteSets, TLC

VARIABLES
    \* ---- MainFrame ----
    pc,         \* position of the process: "new", "menubar", "loop", "ready", "exited"
    loaded,     \* MainFrame.loaded
    Panels,     \* MainFrame.Panels: ordered mapping, a sequence of [name, inst]
    windows,    \* the local list `windows` of __init__: a sequence of [name, cls]
    idx,        \* index of the next element of `windows` the loop will build
    gui,        \* content of gui.json (Absent or a settings document)
    old,        \* content of the legacy config.json (Absent or a settings document)
    pos,        \* window position, a wx.Point [x, y]
    size,       \* window size, a wx.Size [x, y]
    pages,      \* the notebook's pages: a sequence of panel instances
    sel,        \* the notebook's selection: 0 (none) or an index of pages
    destroyed,  \* Destroy() has been called on the frame
    fail,       \* the exception caught in __init__: [raised, built, closed]
    evt,        \* the event handled last, with its inputs
    calls,      \* the calls made by the handler that ran last, in order
    delivered,  \* per registry entry: how many times each show-time hook has been called
    shows,      \* number of EVT_SHOW events delivered to the frame
    \* ---- BasePanel ----
    _threads,     \* BasePanel._threads: a sequence of workers
    is_closing,   \* BasePanel.is_closing
    _in_update,   \* BasePanel._in_update
    enabled,      \* enabled state of every widget of _components
    worker,       \* per worker thread: [st, freeze, stopSent, self, passes]
    upd,          \* the OnUpdate invocations in progress, innermost last
    cpc,          \* position of BasePanel.OnClose: "idle", "stop", "join", "done"
    snap,         \* the copy list(self._threads) OnClose iterates over
    ci,           \* index into snap
    req           \* the call the panel's owner made last on the UI thread: [op, kind]

fvars == <<pc, loaded, Panels, windows, idx, gui, old, pos, size, pages, sel,
           destroyed, fail, evt, calls, delivered, shows>>
pvars == <<_threads, is_closing, _in_update, enabled, worker, upd, cpc, snap, ci, req>>
vars == <<fvars, pvars>>

----------------------------------------------------------------------------
(* Values *)

\* An optional value: Python's None, or a value.
NoneV == [none |-> TRUE, v |-> <<>>]
Some(x) == [none |-> FALSE, v |-> x]

\* A file: absent, or holding a settings document.
AbsentFile == [exists |-> FALSE, doc |-> <<>>]
FileOf(doc) == [exists |-> TRUE, doc |-> doc]
EmptyDoc == <<>>        \* the JSON document {}

MainKey == <<"main">>
LogName == <<"log">>
FlashName == <<"flash">>
AboutName == <<"about">>

\* no panel instance (the None of Panels.get(name, None) and of GetCurrentPage())
NoPanel == 0
\* the instance of the log panel; the instance built from windows[i] is LogInst + i
LogInst == 1

\* f"plugin.{name}.{gui_name}"
PluginId(name, gui_name) == <<"plugin">> \o name \o gui_name

\* name.startswith("plugin.")
StartsWithPlugin(name) == Len(name) >= 2 /\ name[1] = "plugin"

\* truth value of a list-or-None argument (`if pos:`)
Truthy(o) == ~o.none /\ o.v # <<>>

\* the insertion-ordered dict Panels, kept as a sequence of [name, inst]
RECURSIVE DictIndex(_, _, _)
DictIndex(d, k, i) ==
    IF i > Len(d) THEN 0
    ELSE IF d[i].name = k THEN i
    ELSE DictIndex(d, k, i + 1)

\* Panels.get(name, None)
DictGet(d, k) == IF DictIndex(d, k, 1) = 0 THEN NoPanel ELSE d[DictIndex(d, k, 1)].inst

\* (mutant) an existing key keeps the panel registered first
DictSet_KeepFirst(d, k, v) ==
    IF DictIndex(d, k, 1) = 0
    THEN Append(d, [name |-> k, inst |-> v])
    ELSE d

\* Panels[name] = panel: a new key is appended, an existing key keeps its place
DictSet(d, k, v) ==
    IF DictIndex(d, k, 1) = 0
    THEN Append(d, [name |-> k, inst |-> v])
    ELSE [d EXCEPT ![DictIndex(d, k, 1)] = [name |-> k, inst |-> v]]

\* a settings document is a function from keys to slices
DocGet(doc, k, dflt) == IF k \in DOMAIN doc THEN doc[k] ELSE dflt
DocSet(doc, k, v) == [x \in (DOMAIN doc) \cup {k} |-> IF x = k THEN v ELSE doc[x]]

\* (mutant) the document to write started from an empty one
ReadSettings_Fresh(file) == EmptyDoc

\* readjson(self.config_file) or {}
ReadSettings(file) == IF file.exists THEN file.doc ELSE EmptyDoc

----------------------------------------------------------------------------
(* MainFrame: window geometry, notebook and settings (main.py 120-174) *)

\* the frame as the settings code sees it
Frame(ps, sz, P, pg, s) == [pos |-> ps, size |-> sz, Panels |-> P, pages |-> pg, sel |-> s]

\* self.Notebook.GetCurrentPage()
NotebookPagePanel(w) == IF w.sel = 0 THEN NoPanel ELSE w.pages[w.sel]

RECURSIVE PageIndex(_, _, _)
PageIndex(pg, panel, i) ==
    IF i > Len(pg) THEN 0
    ELSE IF pg[i] = panel THEN i
    ELSE PageIndex(pg, panel, i + 1)

\* (mutant) the page index taken as zero-based
SetNotebookPagePanel_ZeroBased(w, panel) ==
    IF PageIndex(w.pages, panel, 1) = 0 THEN w.sel ELSE PageIndex(w.pages, panel, 1) - 1

\* NotebookPagePanel.setter: the selection after `self.NotebookPagePanel = panel`
SetNotebookPagePanel(w, panel) ==
    IF PageIndex(w.pages, panel, 1) = 0 THEN w.sel ELSE PageIndex(w.pages, panel, 1)

RECURSIVE NameOfPanel(_, _, _)
NameOfPanel(P, panel, i) ==
    IF i > Len(P) THEN NoneV
    ELSE IF P[i].inst = panel THEN Some(P[i].name)
    ELSE NameOfPanel(P, panel, i + 1)

\* NotebookPageName: the name of the registered panel that is the current page, or None
NotebookPageName(w) == NameOfPanel(w.Panels, NotebookPagePanel(w), 1)

\* NotebookPageName.setter: the selection after `self.NotebookPageName = name`
SetNotebookPageName(w, name) ==
    IF DictGet(w.Panels, name) # NoPanel
    THEN SetNotebookPagePanel(w, DictGet(w.Panels, name))
    ELSE w.sel

\* [pos.x, pos.y] and back (SetPosition and SetSize take the two-element list)
PointToList(p) == <<p.x, p.y>>
ListToPoint(l) == [x |-> l[1], y |-> l[2]]

\* MainFrame.GetSettings
GetSettings(w) ==
    [pos |-> Some(PointToList(w.pos)),
     size |-> Some(PointToList(w.size)),
     page |-> NotebookPageName(w)]

\* MainFrame.SetSettings(**slice): the frame afterwards
SetSettings(w, slice) ==
    [w EXCEPT
        !.pos = IF Truthy(slice.pos) THEN ListToPoint(slice.pos.v) ELSE @,
        !.size = IF Truthy(slice.size) THEN ListToPoint(slice.size.v) ELSE @,
        !.sel = IF ~slice.page.none THEN SetNotebookPageName(w, slice.page.v) ELSE @]

\* settings.get("main", {}) as keyword arguments: a missing key is the default None
NoMainSlice == [pos |-> NoneV, size |-> NoneV, page |-> NoneV]

\* settings.get(name, {}) for a panel, and `panel.GetSettings() or {}`
EmptySlice == "{}"
OrEmpty(ret) == IF ret = "None" \/ ret = EmptySlice THEN EmptySlice ELSE ret

\* one call of a panel hook (or of a frame primitive, with panel <<>>)
Call(op, name, arg) == [op |-> op, panel |-> name, arg |-> arg]

----------------------------------------------------------------------------
(* MainFrame: the event handlers (main.py 192-240) *)

\* (mutant) one loop: each panel is shown right after it got its settings
OnShowCalls_OneLoop(P, doc) ==
    [k \in 1..(3 * Len(P)) |->
        IF k % 3 = 1
        THEN Call("SetSettings", P[(k + 2) \div 3].name,
                  <<DocGet(doc, P[(k + 2) \div 3].name, EmptySlice)>>)
        ELSE IF k % 3 = 2
        THEN Call("SetInitParams", P[(k + 1) \div 3].name, <<>>)
        ELSE Call("OnShow", P[k \div 3].name, <<>>)]

\* the calls of OnShow: every panel's SetSettings and SetInitParams, then every OnShow
OnShowCalls(P, doc) ==
    [k \in 1..(3 * Len(P)) |->
        IF k <= 2 * Len(P)
        THEN IF k % 2 = 1
             THEN Call("SetSettings", P[(k + 1) \div 2].name,
                       <<DocGet(doc, P[(k + 1) \div 2].name, EmptySlice)>>)
             ELSE Call("SetInitParams", P[k \div 2].name, <<>>)
        ELSE Call("OnShow", P[k - 2 * Len(P)].name, <<>>)]

\* MainFrame.OnShow: the frame afterwards and the calls made
OnShow(w, file) ==
    [w |-> SetSettings(w, DocGet(ReadSettings(file), MainKey, NoMainSlice)),
     calls |-> OnShowCalls(w.Panels, ReadSettings(file))]

\* the loop of OnClose over the registry: settings[name] = panel.GetSettings() or {}
RECURSIVE CloseDoc(_, _, _, _)
CloseDoc(doc, P, rets, i) ==
    IF i > Len(P) THEN doc
    ELSE CloseDoc(DocSet(doc, P[i].name, OrEmpty(rets[i])), P, rets, i + 1)

\* (mutant) the document is written before the panels are closed
OnCloseCalls_WriteFirst(P) ==
    [k \in 1..(2 * Len(P) + 2) |->
        IF k = 1 THEN Call("writejson", <<>>, <<>>)
        ELSE IF k <= 2 * Len(P) + 1
        THEN IF k % 2 = 0
             THEN Call("OnClose", P[k \div 2].name, <<>>)
             ELSE Call("GetSettings", P[(k - 1) \div 2].name, <<>>)
        ELSE Call("Destroy", <<>>, <<>>)]

\* the calls of OnClose once loaded: per panel OnClose then GetSettings, then the
\* write of the document, then Destroy
OnCloseCalls(P) ==
    [k \in 1..(2 * Len(P) + 2) |->
        IF k <= 2 * Len(P)
        THEN IF k % 2 = 1
             THEN Call("OnClose", P[(k + 1) \div 2].name, <<>>)
             ELSE Call("GetSettings", P[k \div 2].name, <<>>)
        ELSE IF k = 2 * Len(P) + 1
             THEN Call("writejson", <<>>, <<>>)
             ELSE Call("Destroy", <<>>, <<>>)]

\* (mutant) no check of self.loaded
OnClose_NoGuard(w, ld, file, rets) ==
    [file |-> FileOf(CloseDoc(DocSet(ReadSettings(file), MainKey, GetSettings(w)),
                              w.Panels, rets, 1)),
     calls |-> OnCloseCalls(w.Panels),
     destroyed |-> TRUE]

\* MainFrame.OnClose: the settings file afterwards, the calls made, and Destroy
OnClose(w, ld, file, rets) ==
    IF ~ld
    THEN [file |-> file, calls |-> <<Call("Destroy", <<>>, <<>>)>>, destroyed |-> TRUE]
    ELSE [file |-> FileOf(CloseDoc(DocSet(ReadSettings(file), MainKey, GetSettings(w)),
                                   w.Panels, rets, 1)),
          calls |-> OnCloseCalls(w.Panels),
          destroyed |-> TRUE]

BoolStr(b) == IF b THEN "True" ELSE "False"

\* (mutant) the check state taken from the item even when it is not checkable
Checked_Raw(e) == e.checked

\* checked = item.IsChecked() if item.IsCheckable() else False
Checked(e) == IF e.checkable THEN e.checked ELSE FALSE

\* MainFrame.OnMenu; self.Close(True) runs the EVT_CLOSE handler, OnClose
OnMenu(w, ld, file, e, rets) ==
    IF ~e.isMenu \/ ~e.found
    THEN [file |-> file, calls |-> <<>>, destroyed |-> FALSE]
    ELSE IF e.title = "File" /\ e.label = "Quit"
    THEN OnClose(w, ld, file, rets)
    ELSE IF e.title = "Debug" /\ e.label = "Print settings"
    THEN [file |-> file,
          calls |-> [k \in 1..Len(w.Panels) |-> Call("GetSettings", w.Panels[k].name, <<>>)],
          destroyed |-> FALSE]
    ELSE [file |-> file,
          calls |-> [k \in 1..Len(w.Panels) |->
                        Call("OnMenu", w.Panels[k].name,
                             <<e.title, e.label, BoolStr(Checked(e))>>)],
          destroyed |-> FALSE]

----------------------------------------------------------------------------
(* MainFrame.__init__ (main.py 29-118) *)

\* the plugin registry lpm.plugins: a sequence of [name, state, guis]; state is
\* "none" (a falsy entry), "nogui" (has_gui false) or "gui"; guis is build_gui()
\* (two plugins, each offering at most one GUI element)
PluginNames == {<<"demo">>, <<"demo", "x">>}
GuiNames == {<<"settings">>, <<"x", "settings">>}
GuiEntries == [gui_name : GuiNames, cls : {"panel", "other"}]
\* the keys of lpm.plugins are distinct
DistinctNames(m) == \A i, j \in DOMAIN m : i # j => m[i].name # m[j].name
GuiDicts == {<<>>} \cup {<<e>> : e \in GuiEntries}
PluginRecs == [name : PluginNames, state : {"none", "nogui", "gui"}, guis : GuiDicts]
PluginMaps ==
    {m \in UNION {[1..n -> PluginRecs] : n \in 0..Cardinality(PluginNames)} :
        DistinctNames(m)}

\* lines 84-88 for one plugin
GuiWindows(pl) ==
    IF pl.state # "gui" THEN <<>>
    ELSE [k \in 1..Len(pl.guis) |->
            [name |-> PluginId(pl.name, pl.guis[k].gui_name), cls |-> pl.guis[k].cls]]

RECURSIVE PluginWindows(_, _)
PluginWindows(plugins, i) ==
    IF i > Len(plugins) THEN <<>>
    ELSE GuiWindows(plugins[i]) \o PluginWindows(plugins, i + 1)

\* the list `windows` (lines 77-88)
Windows(plugins) ==
    <<[name |-> FlashName, cls |-> "panel"], [name |-> AboutName, cls |-> "panel"]>>
        \o PluginWindows(plugins, 1)

\* (mutant) the legacy file renamed only when no new-format file is in the way
Migrate_NoUnlink(newFile, oldFile) ==
    IF oldFile.exists /\ ~newFile.exists
    THEN [gui |-> oldFile, old |-> AbsentFile]
    ELSE [gui |-> newFile, old |-> oldFile]

\* the migration of the legacy file (lines 52-58): the two files afterwards
Migrate(newFile, oldFile) ==
    IF oldFile.exists
    THEN [gui |-> oldFile, old |-> AbsentFile]
    ELSE [gui |-> newFile, old |-> oldFile]

\* (mutant) marked as loaded on the first element of the loop, whatever it is
LoadedAt_Always(ld, name) == TRUE

\* self.loaded after lines 96-98 for the element `name`
LoadedAt(ld, name) == ld \/ StartsWithPlugin(name)

\* what GetSettings of the panels returns when nobody asks
NoRets(P) == [i \in 1..Len(P) |-> "None"]

\* the except clause (lines 106-109): OnClose if not loaded
BuildFailed(w, ld, file) ==
    IF ~ld
    THEN OnClose(w, ld, file, NoRets(w.Panels))
    ELSE [file |-> file, calls |-> <<>>, destroyed |-> FALSE]

\* self.SetSize((700, 800)) (line 115)
InitialSize == [x |-> 700, y |-> 800]

NoFail == [raised |-> FALSE, built |-> 0, closed |-> FALSE]

NoEvt ==
    [kind |-> "none", shown |-> FALSE, isMenu |-> FALSE, found |-> FALSE,
     title |-> "", label |-> "", checkable |-> FALSE, checked |-> FALSE]

\* lines 29-91: version check, migration, log panel, enumeration of the classes
CtorBegin ==
    /\ pc = "new"
    /\ \E versionOk \in BOOLEAN, plugins \in PluginMaps :
        IF ~versionOk
        THEN /\ pc' = "exited"
             /\ UNCHANGED <<loaded, Panels, windows, idx, gui, old>>
        ELSE /\ pc' = "menubar"
             /\ gui' = Migrate(gui, old).gui
             /\ old' = Migrate(gui, old).old
             /\ loaded' = FALSE
             /\ Panels' = <<[name |-> LogName, inst |-> LogInst]>>
             /\ windows' = Windows(plugins)
             /\ idx' = 0
    /\ UNCHANGED <<pos, size, pages, sel, destroyed, fail, evt, calls, delivered, shows>>
    /\ UNCHANGED pvars

\* the exception path out of the try block, then lines 111-118
CtorRaise(ld) ==
    LET r == BuildFailed(Frame(pos, size, Panels, pages, sel), ld, gui) IN
    /\ pc' = "ready"
    /\ loaded' = ld
    /\ gui' = r.file
    /\ calls' = r.calls
    /\ destroyed' = r.destroyed
    /\ fail' = [raised |-> TRUE, built |-> Len(pages), closed |-> r.destroyed]
    /\ size' = InitialSize
    /\ delivered' = [i \in 1..Len(Panels) |-> [set |-> 0, init |-> 0, show |-> 0]]
    /\ UNCHANGED <<Panels, windows, idx, old, pos, pages, sel, evt, shows>>

\* line 93: self.SetMenuBar(self.Xrc.LoadMenuBar("MainMenuBar"))
CtorMenuBar ==
    /\ pc = "menubar"
    /\ \E ok \in BOOLEAN :
        IF ok
        THEN /\ pc' = "loop"
             /\ idx' = 1
             /\ UNCHANGED <<loaded, Panels, windows, gui, old, pos, size, pages, sel,
                            destroyed, fail, evt, calls, delivered, shows>>
        ELSE CtorRaise(loaded)
    /\ UNCHANGED pvars

\* lines 95-103: one element of `windows`
CtorPanel ==
    /\ pc = "loop"
    /\ idx <= Len(windows)
    /\ LET w == windows[idx]
           ld == LoadedAt(loaded, w.name)
       IN  IF w.cls = "panel"
           THEN \E ok \in BOOLEAN :
                 IF ok
                 THEN /\ Panels' = DictSet(Panels, w.name, LogInst + idx)
                      /\ pages' = Append(pages, LogInst + idx)
                      /\ sel' = IF sel = 0 THEN 1 ELSE sel
                      /\ idx' = idx + 1
                      /\ loaded' = ld
                      /\ UNCHANGED <<pc, windows, gui, old, pos, size, destroyed, fail,
                                     evt, calls, delivered, shows>>
                 ELSE CtorRaise(ld)
           ELSE /\ idx' = idx + 1
                /\ loaded' = ld
                /\ UNCHANGED <<pc, Panels, windows, gui, old, pos, size, pages, sel,
                               destroyed, fail, evt, calls, delivered, shows>>
    /\ UNCHANGED pvars

\* line 105 and lines 111-118
CtorEnd ==
    /\ pc = "loop"
    /\ idx > Len(windows)
    /\ pc' = "ready"
    /\ loaded' = TRUE
    /\ size' = InitialSize
    /\ delivered' = [i \in 1..Len(Panels) |-> [set |-> 0, init |-> 0, show |-> 0]]
    /\ UNCHANGED <<Panels, windows, idx, gui, old, pos, pages, sel, destroyed, fail,
                   evt, calls, shows>>
    /\ UNCHANGED pvars

----------------------------------------------------------------------------
(* MainFrame: events delivered to the window *)

MaxShows == 2
Positions == {[x |-> 0, y |-> 0], [x |-> 10, y |-> 20]}
Sizes == {InitialSize, [x |-> 900, y |-> 800]}
\* what the panels' GetSettings return during one handler: None (the base class's
\* result) from every panel, or None and a slice alternately
PanelRets(P) ==
    {[i \in 1..Len(P) |-> "None"],
     [i \in 1..Len(P) |-> IF i % 2 = 1 THEN "None" ELSE "s1"]}
\* a fired menu command: a key press that is no menu command, an unknown item, the
\* two built-in commands, and commands of the panels (one that shares its label with
\* a built-in command in every check state, one that shares its title)
MenuItem(t, l, ca, ck) ==
    [kind |-> "menu", shown |-> FALSE, isMenu |-> TRUE, found |-> TRUE,
     title |-> t, label |-> l, checkable |-> ca, checked |-> ck]
MenuEvents ==
    {[NoEvt EXCEPT !.kind = "menu", !.isMenu = m] : m \in BOOLEAN}
    \cup {MenuItem("File", "Quit", FALSE, FALSE),
          MenuItem("Debug", "Print settings", FALSE, FALSE),
          MenuItem("Debug", "Quit", FALSE, FALSE)}
    \cup {MenuItem("File", "Print settings", c[1], c[2]) :
            c \in {<<FALSE, TRUE>>, <<TRUE, FALSE>>, <<TRUE, TRUE>>}}

Live == pc = "ready" /\ ~destroyed

CountCalls(cs, op, name) ==
    Cardinality({k \in DOMAIN cs : cs[k].op = op /\ cs[k].panel = name})

\* EVT_SHOW (the window is shown or hidden): MainFrame.OnShow
ShowEvt ==
    /\ Live
    /\ shows < MaxShows
    /\ shows' = shows + 1
    /\ \E shown \in BOOLEAN :
        LET r == OnShow(Frame(pos, size, Panels, pages, sel), gui) IN
        /\ pos' = r.w.pos
        /\ size' = r.w.size
        /\ sel' = r.w.sel
        /\ calls' = r.calls
        /\ evt' = [NoEvt EXCEPT !.kind = "show", !.shown = shown]
        /\ delivered' =
            [i \in 1..Len(Panels) |->
                [set |-> delivered[i].set + CountCalls(r.calls, "SetSettings", Panels[i].name),
                 init |-> delivered[i].init
                            + CountCalls(r.calls, "SetInitParams", Panels[i].name),
                 show |-> delivered[i].show + CountCalls(r.calls, "OnShow", Panels[i].name)]]
    /\ UNCHANGED <<pc, loaded, Panels, windows, idx, gui, old, pages, destroyed, fail>>
    /\ UNCHANGED pvars

\* EVT_CLOSE: MainFrame.OnClose
CloseEvt ==
    /\ Live
    /\ \E rets \in PanelRets(Panels) :
        LET r == OnClose(Frame(pos, size, Panels, pages, sel), loaded, gui, rets) IN
        /\ gui' = r.file
        /\ calls' = r.calls
        /\ destroyed' = r.destroyed
        /\ evt' = [NoEvt EXCEPT !.kind = "close"]
    /\ UNCHANGED <<pc, loaded, Panels, windows, idx, old, pos, size, pages, sel, fail,
                   delivered, shows>>
    /\ UNCHANGED pvars

\* EVT_MENU: MainFrame.OnMenu
MenuEvt ==
    /\ Live
    /\ \E e \in MenuEvents :
       \E rets \in (IF e.found /\ e.label = "Quit" THEN PanelRets(Panels) ELSE {NoRets(Panels)}) :
        LET r == OnMenu(Frame(pos, size, Panels, pages, sel), loaded, gui, e, rets) IN
        /\ gui' = r.file
        /\ calls' = r.calls
        /\ destroyed' = r.destroyed
        /\ evt' = e
    /\ UNCHANGED <<pc, loaded, Panels, windows, idx, old, pos, size, pages, sel, fail,
                   delivered, shows>>
    /\ UNCHANGED pvars

\* the user moves the window, resizes it, or selects a tab
Move ==
    /\ Live
    /\ \E p \in Positions \ {pos} : pos' = p
    /\ evt' = NoEvt /\ calls' = <<>>
    /\ UNCHANGED <<pc, loaded, Panels, windows, idx, gui, old, size, pages, sel,
                   destroyed, fail, delivered, shows>>
    /\ UNCHANGED pvars

Resize ==
    /\ Live
    /\ \E sz \in Sizes \ {size} : size' = sz
    /\ evt' = NoEvt /\ calls' = <<>>
    /\ UNCHANGED <<pc, loaded, Panels, windows, idx, gui, old, pos, pages, sel,
                   destroyed, fail, delivered, shows>>
    /\ UNCHANGED pvars

SelectTab ==
    /\ Live
    /\ \E i \in (1..Len(pages)) \ {sel} : sel' = i
    /\ evt' = NoEvt /\ calls' = <<>>
    /\ UNCHANGED <<pc, loaded, Panels, windows, idx, gui, old, pos, size, pages,
                   destroyed, fail, delivered, shows>>
    /\ UNCHANGED pvars

\* a caller restores the window from its own snapshot: SetSettings(**GetSettings())
RoundTrip ==
    /\ Live
    /\ LET w == Frame(pos, size, Panels, pages, sel)
           r == SetSettings(w, GetSettings(w))
       IN  /\ pos' = r.pos
           /\ size' = r.size
           /\ sel' = r.sel
    /\ evt' = [NoEvt EXCEPT !.kind = "roundtrip"]
    /\ calls' = <<>>
    /\ UNCHANGED <<pc, loaded, Panels, windows, idx, gui, old, pages, destroyed, fail,
                   delivered, shows>>
    /\ UNCHANGED pvars

----------------------------------------------------------------------------
(* The settings files the process may find *)

DocA ==
    [k \in {MainKey, AboutName, <<"plugin", "gone", "x">>} |->
        IF k = MainKey
        THEN [pos |-> Some(<<10, 20>>), size |-> Some(<<700, 800>>), page |-> Some(AboutName)]
        ELSE IF k = AboutName THEN "s1" ELSE "s2"]

DocLegacy ==
    [k \in {MainKey, FlashName} |->
        IF k = MainKey
        THEN [pos |-> Some(<<>>), size |-> Some(<<900, 800>>),
              page |-> Some(<<"plugin", "demo", "x", "settings">>)]
        ELSE "s2"]

GuiFiles == {AbsentFile, FileOf(DocA)}
OldFiles == {AbsentFile, FileOf(DocLegacy)}

----------------------------------------------------------------------------
(* BasePanel (panels/base.py): one panel, its widgets and its workers *)

MaxWorkers == 2
MaxDepth == 3

\* the widgets registered in _components by the Bind* helpers
Components == {"combo", "button"}
\* the worker threads that can be handed to StartWork, and their classes
Workers == 1..MaxWorkers
WorkerClass(t) == IF t % 2 = 1 THEN "FlashThread" ELSE "UartThread"
ThreadKinds == {"BaseThread", "FlashThread", "UartThread"}

\* (mutant) every worker taken to match
IsInstance_Any(t, kind) == TRUE

\* isinstance(t, cls)
IsInstance(t, kind) == kind = "BaseThread" \/ WorkerClass(t) = kind

\* a thread object that StartWork has not been given yet
NewWorker ==
    [st |-> "new", freeze |-> FALSE, stopSent |-> FALSE, self |-> FALSE, passes |-> 0,
     stops |-> 0]

\* a call on the panel, with the class it was given ("" when it takes none)
Req(op, kind) == [op |-> op, kind |-> kind]
NoReq == Req("none", "")

\* BasePanel.__init__ (with every widget bound and enabled)
PanelIdle ==
    /\ _threads = <<>>
    /\ is_closing = FALSE
    /\ _in_update = FALSE
    /\ enabled = [c \in Components |-> TRUE]
    /\ worker = [t \in Workers |-> NewWorker]
    /\ upd = <<>>
    /\ cpc = "idle"
    /\ snap = <<>>
    /\ ci = 0
    /\ req = NoReq

\* EnableAll gets past its is_closing check
EnableAllRuns(closing) == ~closing

\* (mutant) EnableAll without its is_closing check
EnableAll_NoCheck(en, closing) == [c \in Components |-> TRUE]

\* BasePanel.EnableAll: the widgets afterwards
EnableAll(en, closing) == IF closing THEN en ELSE [c \in Components |-> TRUE]

\* BasePanel.DisableAll: the widgets afterwards
DisableAll(en, closing) == IF closing THEN en ELSE [c \in Components |-> FALSE]

InList(q, t) == \E i \in DOMAIN q : q[i] = t

\* (mutant) the worker left in the list
Remove_Keep(q, t) == q

\* list.remove(t): the first occurrence is removed
RECURSIVE Remove(_, _)
Remove(q, t) ==
    IF q = <<>> THEN <<>>
    ELSE IF Head(q) = t THEN Tail(q)
    ELSE <<Head(q)>> \o Remove(Tail(q), t)

\* (mutant) the enable pass run for every worker that stops
FreezeUi_Always(w) == TRUE

\* `if freeze_ui:` in the on_stop closure of StartWork
FreezeUi(w) == w.freeze

\* (mutant) join that does not wait
Joined_NoWait(w) == TRUE

\* t.join() returns: the thread has terminated
Joined(w) == w.st = "dead"

\* an OnUpdate invocation in progress: how it was entered and on which thread
UpdFrame(kind, th) == [kind |-> kind, th |-> th]
Ui == 0
FramesOf(th) == {i \in DOMAIN upd : upd[i].th = th}
\* the UI thread is in its event loop, inside no handler
UiIdle == cpc = "idle" /\ FramesOf(Ui) = {}
\* the UI thread is inside no handler, before or after the panel's OnClose
UiFree == cpc \in {"idle", "done"} /\ FramesOf(Ui) = {}
\* the UI thread can dispatch an event: from the event loop, or synchronously from
\* inside an OnUpdate handler that changes a bound widget
UiDispatch == cpc = "idle" /\ Len(upd) < MaxDepth

\* StartWork(thread, freeze_ui) (lines 28-39)
StartWork ==
    /\ UiIdle
    /\ \E t \in Workers, freeze \in BOOLEAN :
        /\ worker[t].st = "new"
        /\ _threads' = Append(_threads, t)
        /\ enabled' = IF freeze THEN DisableAll(enabled, is_closing) ELSE enabled
        /\ worker' = [worker EXCEPT ![t] = [@ EXCEPT !.st = "running", !.freeze = freeze]]
    /\ UNCHANGED <<is_closing, _in_update, upd, cpc, snap, ci>>
    /\ req' = NoReq
    /\ UNCHANGED fvars

\* StopWork(cls) (lines 41-44): t.stop() only sets the worker's stop flag
StopWork ==
    /\ UiIdle
    /\ \E kind \in ThreadKinds :
        /\ worker' = [t \in Workers |->
                         IF InList(_threads, t) /\ IsInstance(t, kind)
                         THEN [worker[t] EXCEPT !.stopSent = TRUE]
                         ELSE worker[t]]
        /\ req' = Req("StopWork", kind)
    /\ UNCHANGED <<_threads, is_closing, _in_update, enabled, upd, cpc, snap, ci>>
    /\ UNCHANGED fvars

\* the worker stops, of its own accord or having seen its stop flag, and calls
\* on_stop(t) on its own thread (lines 31-34): OnWorkStopped, then EnableAll if it
\* was started with freeze_ui; list.remove raises if t is not in the list
WorkerStops ==
    \E t \in Workers :
        /\ worker[t].st = "running"
        /\ IF ~InList(_threads, t)
           THEN /\ worker' = [worker EXCEPT ![t] = [@ EXCEPT !.st = "notified", !.stops = @ + 1,
                                                             !.self = ~worker[t].stopSent]]
                /\ UNCHANGED <<_threads, enabled, upd>>
           ELSE /\ _threads' = Remove(_threads, t)
                /\ IF FreezeUi(worker[t])
                   THEN /\ enabled' = EnableAll(enabled, is_closing)
                        /\ IF EnableAllRuns(is_closing)
                           THEN /\ Len(upd) < MaxDepth
                                /\ upd' = Append(upd, UpdFrame("EnableAll", t))
                                /\ worker' = [worker EXCEPT ![t] =
                                                [@ EXCEPT !.st = "notified", !.stops = @ + 1,
                                                          !.self = ~worker[t].stopSent,
                                                          !.passes = @ + 1]]
                           ELSE /\ upd' = upd
                                /\ worker' = [worker EXCEPT ![t] =
                                                [@ EXCEPT !.st = "notified", !.stops = @ + 1,
                                                          !.self = ~worker[t].stopSent]]
                   ELSE /\ worker' = [worker EXCEPT ![t] =
                                        [@ EXCEPT !.st = "notified", !.stops = @ + 1,
                                                  !.self = ~worker[t].stopSent]]
                        /\ UNCHANGED <<enabled, upd>>
        /\ UNCHANGED <<is_closing, _in_update, cpc, snap, ci>>
        /\ req' = NoReq
        /\ UNCHANGED fvars

\* the worker's thread terminates once on_stop has returned
WorkerExits ==
    \E t \in Workers :
        /\ worker[t].st = "notified"
        /\ FramesOf(t) = {}
        /\ worker' = [worker EXCEPT ![t] = [@ EXCEPT !.st = "dead"]]
        /\ UNCHANGED <<_threads, is_closing, _in_update, enabled, upd, cpc, snap, ci>>
        /\ req' = NoReq
        /\ UNCHANGED fvars

\* BasePanel.OnClose (lines 61-65), up to the copy of the list
PanelCloseBegin ==
    /\ UiIdle
    /\ is_closing' = TRUE
    /\ snap' = _threads
    /\ ci' = 1
    /\ cpc' = "stop"
    /\ UNCHANGED <<_threads, _in_update, enabled, worker, upd>>
    /\ req' = NoReq
    /\ UNCHANGED fvars

\* t.stop() (line 64)
PanelCloseStop ==
    /\ cpc = "stop"
    /\ ci <= Len(snap)
    /\ worker' = [worker EXCEPT ![snap[ci]] = [@ EXCEPT !.stopSent = TRUE]]
    /\ cpc' = "join"
    /\ UNCHANGED <<_threads, is_closing, _in_update, enabled, upd, snap, ci>>
    /\ req' = NoReq
    /\ UNCHANGED fvars

\* t.join() (line 65) returns
PanelCloseJoin ==
    /\ cpc = "join"
    /\ Joined(worker[snap[ci]])
    /\ ci' = ci + 1
    /\ cpc' = "stop"
    /\ UNCHANGED <<_threads, is_closing, _in_update, enabled, worker, upd, snap>>
    /\ req' = NoReq
    /\ UNCHANGED fvars

\* OnClose returns
PanelCloseReturn ==
    /\ cpc = "stop"
    /\ ci > Len(snap)
    /\ cpc' = "done"
    /\ UNCHANGED <<_threads, is_closing, _in_update, enabled, worker, upd, snap, ci>>
    /\ req' = NoReq
    /\ UNCHANGED fvars

\* _OnUpdate(event) (lines 73-80), up to the call of OnUpdate
WidgetEvent ==
    /\ UiDispatch
    /\ IF _in_update
       THEN UNCHANGED <<_in_update, upd>>
       ELSE /\ _in_update' = TRUE
            /\ upd' = Append(upd, UpdFrame("_OnUpdate", Ui))
    /\ UNCHANGED <<_threads, is_closing, enabled, worker, cpc, snap, ci>>
    /\ req' = NoReq
    /\ UNCHANGED fvars

\* DoUpdate(target) (lines 82-87), up to the call of OnUpdate
DoUpdate ==
    /\ UiDispatch
    /\ IF _in_update
       THEN UNCHANGED <<_in_update, upd>>
       ELSE /\ _in_update' = TRUE
            /\ upd' = Append(upd, UpdFrame("DoUpdate", Ui))
    /\ UNCHANGED <<_threads, is_closing, enabled, worker, cpc, snap, ci>>
    /\ req' = NoReq
    /\ UNCHANGED fvars

\* BasePanel.OnShow (lines 58-59): OnUpdate is called directly
PanelOnShow ==
    /\ UiIdle
    /\ Len(upd) < MaxDepth
    /\ upd' = Append(upd, UpdFrame("OnShow", Ui))
    /\ UNCHANGED <<_threads, is_closing, _in_update, enabled, worker, cpc, snap, ci>>
    /\ req' = NoReq
    /\ UNCHANGED fvars

\* EnableAll called by the panel itself (lines 152-157): OnUpdate is called directly
PanelEnableAll ==
    /\ UiFree
    /\ Len(upd) < MaxDepth
    /\ enabled' = EnableAll(enabled, is_closing)
    /\ upd' = IF EnableAllRuns(is_closing) THEN Append(upd, UpdFrame("EnableAll", Ui)) ELSE upd
    /\ UNCHANGED <<_threads, is_closing, _in_update, worker, cpc, snap, ci>>
    /\ req' = Req("EnableAll", "")
    /\ UNCHANGED fvars

\* DisableAll called by the panel itself (lines 159-163)
PanelDisableAll ==
    /\ UiFree
    /\ enabled' = DisableAll(enabled, is_closing)
    /\ UNCHANGED <<_threads, is_closing, _in_update, worker, upd, cpc, snap, ci>>
    /\ req' = Req("DisableAll", "")
    /\ UNCHANGED fvars

\* the innermost OnUpdate invocation of a thread returns; _OnUpdate and DoUpdate
\* then clear the guard (lines 80 and 87)
LastFrame(th) == CHOOSE i \in FramesOf(th) : \A j \in FramesOf(th) : j <= i
DropAt(q, i) == [k \in 1..(Len(q) - 1) |-> IF k < i THEN q[k] ELSE q[k + 1]]
UpdateReturns ==
    \E th \in {Ui} \cup Workers :
        /\ FramesOf(th) # {}
        /\ th = Ui => cpc = "idle"
        /\ upd' = DropAt(upd, LastFrame(th))
        /\ _in_update' = IF upd[LastFrame(th)].kind \in {"_OnUpdate", "DoUpdate"}
                         THEN FALSE ELSE _in_update
        /\ UNCHANGED <<_threads, is_closing, enabled, worker, cpc, snap, ci>>
        /\ req' = NoReq
        /\ UNCHANGED fvars

\* the innermost OnUpdate invocation of a thread ends by raising: the exception leaves
\* _OnUpdate or DoUpdate before line 80 or 87, so the guard stays as it is
UpdateRaises ==
    \E th \in {Ui} \cup Workers :
        /\ FramesOf(th) # {}
        /\ th = Ui => cpc = "idle"
        /\ upd' = DropAt(upd, LastFrame(th))
        /\ UNCHANGED <<_threads, is_closing, _in_update, enabled, worker, cpc, snap, ci>>
        /\ req' = NoReq
        /\ UNCHANGED fvars

\* a constructed frame on which nothing happens
FrameIdle ==
    /\ pc = "ready"
    /\ loaded = TRUE
    /\ Panels = <<[name |-> LogName, inst |-> LogInst]>>
    /\ windows = <<>>
    /\ idx = 1
    /\ gui = AbsentFile
    /\ old = AbsentFile
    /\ pos = [x |-> 0, y |-> 0]
    /\ size = InitialSize
    /\ pages = <<>>
    /\ sel = 0
    /\ destroyed = FALSE
    /\ fail = NoFail
    /\ evt = NoEvt
    /\ calls = <<>>
    /\ delivered = <<[set |-> 0, init |-> 0, show |-> 0]>>
    /\ shows = 0

InitPanel == FrameIdle /\ PanelIdle

NextPanel ==
    \/ StartWork
    \/ StopWork
    \/ WorkerStops
    \/ WorkerExits
    \/ PanelCloseBegin
    \/ PanelCloseStop
    \/ PanelCloseJoin
    \/ PanelCloseReturn
    \/ WidgetEvent
    \/ DoUpdate
    \/ PanelOnShow
    \/ PanelEnableAll
    \/ PanelDisableAll
    \/ UpdateReturns
    \/ UpdateRaises

SpecPanel == InitPanel /\ [][NextPanel]_vars

----------------------------------------------------------------------------
(* The specification of MainFrame *)

\* the process before MainFrame is constructed
FrameNew ==
    /\ pc = "new"
    /\ loaded = FALSE
    /\ Panels = <<>>
    /\ windows = <<>>
    /\ idx = 0
    /\ gui \in GuiFiles
    /\ old \in OldFiles
    /\ pos \in Positions
    /\ size = InitialSize
    /\ pages = <<>>
    /\ sel = 0
    /\ destroyed = FALSE
    /\ fail = NoFail
    /\ evt = NoEvt
    /\ calls = <<>>
    /\ delivered = <<>>
    /\ shows = 0

Init == FrameNew /\ PanelIdle

Next ==
    \/ CtorBegin
    \/ CtorMenuBar
    \/ CtorPanel
    \/ CtorEnd
    \/ ShowEvt
    \/ CloseEvt
    \/ MenuEvt
    \/ Move
    \/ Resize
    \/ SelectTab
    \/ RoundTrip

Spec == Init /\ [][Next]_vars

----------------------------------------------------------------------------
(* Claims about MainFrame, checked under Spec *)

ThisFrame == Frame(pos, size, Panels, pages, sel)
Names(P) == {P[i].name : i \in DOMAIN P}
OpsAt(cs, op, name) == {k \in DOMAIN cs : cs[k].op = op /\ cs[k].panel = name}
OpsOf(cs, op) == {k \in DOMAIN cs : cs[k].op = op}

\* C1: when OnClose runs while loaded is false (the close of a failed startup), the
\* window is destroyed, gui.json is exactly what it was before the close, whether it
\* was absent or present, and no panel's OnClose or GetSettings is called.
C1_FailedStartupCloseWritesNothing ==
    [][(destroyed' /\ ~destroyed /\ ~loaded')
        => /\ gui' = gui
           /\ OpsOf(calls', "writejson") = {}
           /\ OpsOf(calls', "OnClose") = {}
           /\ OpsOf(calls', "GetSettings") = {}
           /\ OpsOf(calls', "Destroy") # {}]_vars

\* C1 witness: a startup that failed after a panel was built, closed the window while
\* loaded was false, with a settings file present.
C1_Witness ==
    /\ fail.closed /\ destroyed /\ ~loaded
    /\ fail.built >= 1
    /\ gui.exists

\* C2: in OnShow, for every pair of registered panels P and Q, P.SetSettings and
\* P.SetInitParams are called, and both before Q.OnShow is called.
C2_SettingsBeforeAnyOnShow ==
    evt.kind = "show" =>
        \A p \in Names(Panels), q \in Names(Panels) :
            /\ OpsAt(calls, "SetSettings", p) # {}
            /\ OpsAt(calls, "SetInitParams", p) # {}
            /\ OpsAt(calls, "OnShow", q) # {}
            /\ \A i \in OpsAt(calls, "SetSettings", p) \cup OpsAt(calls, "SetInitParams", p) :
                \A j \in OpsAt(calls, "OnShow", q) : i < j

\* C2 witness: a show event handled with the log panel, both built-in panels and a
\* plugin panel registered.
C2_Witness ==
    /\ evt.kind = "show"
    /\ Len(Panels) >= 4
    /\ Len(calls) = 3 * Len(Panels)

\* C6 as stated: after an exception in the try block of __init__, the window is
\* closed if and only if no panel had been built by the loop.
C6_ClosedIffNoPanelBuilt ==
    fail.raised => (fail.closed <=> fail.built = 0)

\* the elements of `windows` the loop had reached when the exception was raised
\* (none for the menu bar) include a plugin element
PluginAttempted == \E k \in 1..idx : k <= Len(windows) /\ StartsWithPlugin(windows[k].name)

\* C6 amended: after an exception in the try block of __init__, the window is closed
\* if and only if the loop had not yet reached a plugin element (the exception came
\* from the menu bar or from a built-in panel), however many built-in panels had been
\* built; otherwise the window stays open with loaded true and the panels built so far.
C6_ClosedIffNoPluginAttempted ==
    fail.raised =>
        /\ fail.closed <=> ~PluginAttempted
        /\ ~fail.closed => (loaded /\ Len(pages) = fail.built /\ fail.built >= 2)

\* C6 witness: the flash panel was built, the about panel raised, the window closed.
C6_Witness ==
    /\ fail.raised /\ fail.closed
    /\ fail.built = 1
    /\ idx = 2

\* C7: when OnClose runs with loaded true, every registered panel's OnClose is called
\* before its GetSettings, the document is written exactly once, after all of these
\* calls and before Destroy, and it holds "main" and every registered identifier.
C7_CloseOrderAndDocument ==
    (destroyed /\ loaded) =>
        /\ \A p \in Names(Panels) :
            /\ Cardinality(OpsAt(calls, "OnClose", p)) = 1
            /\ Cardinality(OpsAt(calls, "GetSettings", p)) = 1
            /\ \A i \in OpsAt(calls, "OnClose", p) :
                \A j \in OpsAt(calls, "GetSettings", p) : i < j
        /\ Cardinality(OpsOf(calls, "writejson")) = 1
        /\ \A i \in OpsOf(calls, "OnClose") \cup OpsOf(calls, "GetSettings") :
            \A j \in OpsOf(calls, "writejson") : i < j
        /\ OpsOf(calls, "Destroy") # {}
        /\ \A i \in OpsOf(calls, "writejson") : \A j \in OpsOf(calls, "Destroy") : i < j
        /\ gui.exists
        /\ MainKey \in DOMAIN gui.doc
        /\ Names(Panels) \subseteq DOMAIN gui.doc

\* C7 witness: a loaded window with a plugin panel closed by EVT_CLOSE.
C7_Witness ==
    /\ destroyed /\ loaded
    /\ evt.kind = "close"
    /\ Len(Panels) >= 4

\* C8 as stated: however many show events are delivered, no panel receives its
\* settings slice, SetInitParams or OnShow more than once.
C8_ShowHandledOnce ==
    \A i \in DOMAIN delivered :
        delivered[i].set <= 1 /\ delivered[i].init <= 1 /\ delivered[i].show <= 1

\* C9: a fired menu command that is no menu command or names no item calls nothing
\* and changes nothing; File/Quit closes the window and Debug/Print settings leaves
\* gui.json alone, both without calling any panel's OnMenu; every other command calls
\* every registered panel's OnMenu exactly once with the title, the label and the
\* check state, which is false for an item that is not checkable.
C9_MenuDispatch ==
    [][evt'.kind = "menu" =>
        IF ~evt'.isMenu \/ ~evt'.found
        THEN calls' = <<>> /\ gui' = gui /\ destroyed' = destroyed
             /\ pos' = pos /\ size' = size /\ sel' = sel /\ delivered' = delivered
        ELSE IF evt'.title = "File" /\ evt'.label = "Quit"
        THEN destroyed' /\ OpsOf(calls', "OnMenu") = {}
        ELSE IF evt'.title = "Debug" /\ evt'.label = "Print settings"
        THEN gui' = gui /\ OpsOf(calls', "writejson") = {} /\ OpsOf(calls', "OnMenu") = {}
             /\ destroyed' = destroyed
        ELSE /\ Cardinality(OpsOf(calls', "OnMenu")) = Len(Panels)
             /\ \A p \in Names(Panels) : Cardinality(OpsAt(calls', "OnMenu", p)) = 1
             /\ \A k \in OpsOf(calls', "OnMenu") :
                    calls'[k].arg = <<evt'.title, evt'.label,
                                      IF evt'.checkable /\ evt'.checked
                                      THEN "True" ELSE "False">>
             /\ gui' = gui /\ destroyed' = destroyed]_vars

\* C9 witness: a panel command from an item that is not checkable but reports itself
\* checked, forwarded to four panels.
C9_Witness ==
    /\ evt.kind = "menu" /\ evt.found
    /\ evt.title = "File" /\ evt.label = "Print settings"
    /\ ~evt.checkable /\ evt.checked
    /\ Len(calls) >= 4

\* C10: SetSettings(**GetSettings()) leaves position, size and active page as they
\* were, and GetSettings returns the same three values afterwards.
C10_SettingsRoundTrip ==
    [][evt'.kind = "roundtrip" =>
        /\ pos' = pos /\ size' = size /\ sel' = sel
        /\ GetSettings(Frame(pos', size', Panels', pages', sel')) = GetSettings(ThisFrame)]_vars

\* C10 witness: the round trip made while the current notebook page is a panel that
\* is no longer in the registry, at a position and size other than the initial ones.
C10_Witness ==
    /\ evt.kind = "roundtrip"
    /\ sel > 0
    /\ NotebookPageName(ThisFrame).none
    /\ size # InitialSize
    /\ pos.x # 0

\* C11: the step of a startup that passes the version check leaves, when config.json
\* existed, gui.json existing with exactly the content config.json had (whether or not
\* a gui.json existed before) and config.json absent; when config.json did not exist,
\* it leaves gui.json as it was.
C11_LegacyConfigMigrated ==
    [][(pc = "new" /\ pc' = "menubar") =>
        IF old.exists
        THEN gui'.exists /\ gui'.doc = old.doc /\ ~old'.exists
        ELSE gui' = gui /\ ~old'.exists]_vars

\* C11 witness: a startup has passed the version check and gui.json holds the content
\* of the legacy file, which is gone.
C11_Witness ==
    /\ pc = "menubar"
    /\ gui = FileOf(DocLegacy)
    /\ ~old.exists

\* the keys of a registry or of a list of (name, class) pairs, in order
KeysOf(q) == [i \in 1..Len(q) |-> q[i].name]
\* the elements of `windows` whose class is a BasePanel subclass
PanelClasses(ws) == SelectSeq(ws, LAMBDA e : e.cls = "panel")
\* a list of keys with every repetition after the first dropped
RECURSIVE FirstOccurrences(_)
FirstOccurrences(q) ==
    IF q = <<>> THEN <<>>
    ELSE LET r == FirstOccurrences(SubSeq(q, 1, Len(q) - 1))
         IN  IF \E i \in DOMAIN r : r[i] = q[Len(q)] THEN r ELSE Append(r, q[Len(q)])
\* the number of GUI classes of the plugins 1..i that declare GUI support
RECURSIVE GuiCount(_, _)
GuiCount(plugins, i) ==
    IF i = 0 THEN 0
    ELSE GuiCount(plugins, i - 1)
            + (IF plugins[i].state = "gui" THEN Len(plugins[i].guis) ELSE 0)
\* ws is "flash", "about" and then, plugin by plugin in enumeration order, one element
\* plugin.<plugin name>.<GUI element name> for every GUI class of every plugin that
\* declares GUI support, and nothing else
EnumeratesGuis(ws, plugins) ==
    /\ Len(ws) = 2 + GuiCount(plugins, Len(plugins))
    /\ ws[1] = [name |-> FlashName, cls |-> "panel"]
    /\ ws[2] = [name |-> AboutName, cls |-> "panel"]
    /\ \A i \in DOMAIN plugins :
            plugins[i].state = "gui" =>
                \A k \in DOMAIN plugins[i].guis :
                    ws[2 + GuiCount(plugins, i - 1) + k] =
                        [name |-> <<"plugin">> \o plugins[i].name \o plugins[i].guis[k].gui_name,
                         cls |-> plugins[i].guis[k].cls]
\* the enumeration of lines 77-88 gives such a list for every plugin registry (looked
\* at once, when the list has just been built)
EnumerationOk == pc = "menubar" => \A plugins \in PluginMaps : EnumeratesGuis(Windows(plugins), plugins)
\* a construction in which neither the menu bar nor a panel raised has finished
BuiltAll == pc = "ready" /\ ~fail.raised
\* the element of `windows` built last under the identifier name
LastBuilt(name) ==
    CHOOSE k \in DOMAIN windows :
        /\ windows[k].cls = "panel" /\ windows[k].name = name
        /\ \A j \in DOMAIN windows :
                (windows[j].cls = "panel" /\ windows[j].name = name) => j <= k

\* C12 as stated: after a construction in which no panel raises, the registry's keys
\* are "log", "flash", "about" and then one identifier for every plugin GUI class that
\* is a BasePanel subclass, in enumeration order (none for a class that is not).
C12_RegistryKeyPerClass ==
    /\ EnumerationOk
    /\ BuiltAll => KeysOf(Panels) = <<LogName>> \o KeysOf(PanelClasses(windows))

\* C12 amended: after a construction in which no panel raises, the registry's keys
\* are "log", "flash", "about" and then the distinct identifiers of the plugin GUI
\* classes that are BasePanel subclasses, each at the place of its first occurrence in
\* enumeration order; every key holds the panel built last under that identifier, and
\* every BasePanel class has a notebook page whether or not it kept its key.
C12_RegistryKeysDistinct ==
    /\ EnumerationOk
    /\ BuiltAll =>
        /\ KeysOf(Panels) = FirstOccurrences(<<LogName>> \o KeysOf(PanelClasses(windows)))
        /\ Panels[1].inst = LogInst
        /\ \A i \in 2..Len(Panels) : Panels[i].inst = LogInst + LastBuilt(Panels[i].name)
        /\ Len(pages) = Len(PanelClasses(windows))

\* C12 witness: a construction finished without an exception in which a plugin GUI
\* class that is not a BasePanel subclass was followed by one that is, now registered.
C12_Witness ==
    /\ BuiltAll
    /\ Len(windows) = 4
    /\ windows[3].cls = "other" /\ windows[4].cls = "panel"
    /\ KeysOf(Panels) = <<LogName, FlashName, AboutName, windows[4].name>>

\* C15: in every state of the construction and after it, loaded = TRUE implies that
\* a notebook panel (a panel other than the log panel) has been constructed, is a page
\* of the notebook and is in the registry.
C15_LoadedImpliesNotebookPanel ==
    loaded =>
        \E i \in DOMAIN Panels :
            /\ Panels[i].name # LogName
            /\ \E k \in DOMAIN pages : pages[k] = Panels[i].inst

\* C15 witness: the loop is under way, loaded was set on reaching a plugin GUI class
\* that is not a BasePanel subclass, and only the two built-in panels are built.
C15_Witness ==
    /\ pc = "loop"
    /\ loaded
    /\ idx = 4
    /\ windows[3].cls = "other"
    /\ Len(pages) = 2

\* the top-level keys of a settings file that are neither "main" nor the identifier
\* of a registered panel
ForeignKeys(file, P) == IF file.exists THEN (DOMAIN file.doc) \ ({MainKey} \cup Names(P)) ELSE {}

\* C19: OnClose with loaded true leaves every top-level key of the existing settings
\* document that is neither "main" nor the identifier of a registered panel in the
\* written document, with the value it had.
C19_CloseKeepsForeignKeys ==
    [][(destroyed' /\ ~destroyed /\ loaded) =>
        /\ gui'.exists
        /\ \A k \in ForeignKeys(gui, Panels) :
                k \in DOMAIN gui'.doc /\ gui'.doc[k] = gui.doc[k]]_vars

\* C19 witness: a loaded window was closed and the written document still holds the
\* slice of a plugin that is not installed, next to the slices written by the close.
C19_Witness ==
    /\ destroyed /\ loaded
    /\ OpsOf(calls, "writejson") # {}
    /\ ForeignKeys(gui, Panels) = {<<"plugin", "gone", "x">>}
    /\ gui.doc[<<"plugin", "gone", "x">>] = "s2"
    /\ FlashName \in DOMAIN gui.doc

----------------------------------------------------------------------------
(* Claims about BasePanel, checked under SpecPanel *)

\* C3: when BasePanel.OnClose returns, the active-worker list is empty and every
\* worker that was in it when OnClose began has been sent stop() and has been joined,
\* its thread terminated, whether it stopped on request or completed by itself.
C3_CloseStopsAndJoinsAll ==
    cpc = "done" =>
        /\ _threads = <<>>
        /\ ci > Len(snap)
        /\ \A i \in DOMAIN snap :
            /\ worker[snap[i]].stopSent
            /\ worker[snap[i]].st = "dead"

\* C3 witness: OnClose has returned on a panel that had two active workers, one of
\* which completed by itself before stop() reached it while the other did not.
C3_Witness ==
    /\ cpc = "done"
    /\ Len(snap) = 2
    /\ worker[snap[1]].self # worker[snap[2]].self

\* C4: at most one OnUpdate invocation of the panel is in progress at any time (a
\* widget-change event raised inside an OnUpdate handler starts no nested one).
C4_AtMostOneOnUpdate == Len(upd) <= 1

\* C5: the stop notification of a worker started with freeze_ui=True on a panel that
\* is not closing enables every tracked widget and runs the enable pass (EnableAll
\* with its OnUpdate) once; no worker runs it more than once, and a worker started
\* with freeze_ui=False never runs it and leaves the widgets as they are.
C5_FreezeStopEnablesOnce ==
    /\ [][\A t \in Workers :
            (worker[t].st = "running" /\ worker'[t].st = "notified") =>
                IF worker[t].freeze
                THEN ~is_closing =>
                        /\ \A c \in Components : enabled'[c]
                        /\ worker'[t].passes = 1
                        /\ upd' = Append(upd, UpdFrame("EnableAll", t))
                ELSE /\ worker'[t].passes = 0
                     /\ enabled' = enabled
                     /\ upd' = upd]_vars
    /\ [](\A t \in Workers :
            /\ worker[t].passes <= 1
            /\ ~worker[t].freeze => worker[t].passes = 0)

\* C5 witness: a worker started with freeze_ui=True has stopped on a panel that is
\* not closing: the widgets it had disabled are enabled and its enable pass has run.
C5_Witness ==
    \E t \in Workers :
        /\ worker[t].freeze
        /\ worker[t].st \in {"notified", "dead"}
        /\ worker[t].passes = 1
        /\ ~is_closing
        /\ \A c \in Components : enabled[c]

\* the OnUpdate invocations in progress that were entered from EnableAll
EnablePasses(q) == {i \in DOMAIN q : q[i].kind = "EnableAll"}

\* C13: once is_closing is true, no step (an EnableAll or DisableAll called on the
\* panel, or the EnableAll of the completion callback of a freeze_ui worker) changes
\* the enabled state of a tracked widget or starts an OnUpdate pass from EnableAll.
C13_NoEnableDisableOnceClosing ==
    [][is_closing =>
        /\ enabled' = enabled
        /\ Cardinality(EnablePasses(upd')) <= Cardinality(EnablePasses(upd))
        /\ \A t \in Workers : worker'[t].passes = worker[t].passes]_vars

\* C13 witness: the panel has closed with its widgets disabled; a worker started with
\* freeze_ui=True was stopped by the close and ran no enable pass, and an EnableAll
\* called afterwards has left the widgets disabled.
C13_Witness ==
    /\ is_closing
    /\ req.op = "EnableAll"
    /\ \A c \in Components : ~enabled[c]
    /\ \E t \in Workers :
        /\ worker[t].freeze /\ worker[t].stopSent /\ ~worker[t].self
        /\ worker[t].st = "dead"
        /\ worker[t].passes = 0

\* C14: StopWork(kind) sets the stop flag of exactly the workers in the active list
\* whose class is kind or a subclass of it, changes nothing else of any worker (it
\* waits for none) and leaves the list as it is; a worker leaves the list only in the
\* step of its own stop notification.
C14_StopWorkFrame ==
    [][/\ req'.op = "StopWork" =>
            /\ \A t \in Workers :
                    worker'[t] =
                        IF InList(_threads, t)
                           /\ (req'.kind = "BaseThread" \/ WorkerClass(t) = req'.kind)
                        THEN [worker[t] EXCEPT !.stopSent = TRUE]
                        ELSE worker[t]
            /\ _threads' = _threads
            /\ cpc' = cpc
       /\ \A t \in Workers :
            (InList(_threads, t) /\ ~InList(_threads', t)) =>
                worker[t].st = "running" /\ worker'[t].st = "notified"]_vars

\* C14 witness: StopWork(FlashThread) was called with a FlashThread and a UartThread
\* active: both are still running and in the list, only the first has its stop flag.
C14_Witness ==
    /\ req = Req("StopWork", "FlashThread")
    /\ Len(_threads) = 2
    /\ \A t \in {1, 2} : worker[t].st = "running" /\ InList(_threads, t)
    /\ worker[1].stopSent /\ ~worker[2].stopSent

\* how many times t is in the list
Occurrences(q, t) == Cardinality({i \in DOMAIN q : q[i] = t})

\* C16: OnWorkStopped has run for no worker that is not started or still running and
\* exactly once for every worker that has stopped; a worker is in the active list
\* (once) from StartWork until that notification and not afterwards; and OnWorkStopped
\* runs only for a worker that is in the list.
C16_NotifiedExactlyOnce ==
    /\ [](\A t \in Workers :
            /\ worker[t].st = "new" => (worker[t].stops = 0 /\ ~InList(_threads, t))
            /\ worker[t].st = "running" =>
                    (worker[t].stops = 0 /\ Occurrences(_threads, t) = 1)
            /\ worker[t].st \in {"notified", "dead"} =>
                    (worker[t].stops = 1 /\ ~InList(_threads, t)))
    /\ [][\A t \in Workers :
            worker'[t].stops # worker[t].stops =>
                InList(_threads, t) /\ ~InList(_threads', t)]_vars

\* C16 witness: two workers have been notified, one that completed by itself and one
\* that stopped on a request of the panel, and the close has passed both.
C16_Witness ==
    /\ cpc = "done"
    /\ \E t, u \in Workers :
        /\ worker[t].stops = 1 /\ worker[t].self
        /\ worker[u].stops = 1 /\ ~worker[u].self /\ worker[u].stopSent

\* C17 as stated: on a panel that is not closing, the completion of a worker started
\* with freeze_ui=True while another such worker is still in the active list leaves
\* every tracked widget disabled.
C17_FrozenWhileFreezingWorkerActive ==
    [][\A t \in Workers :
        (/\ worker[t].st = "running" /\ worker'[t].st = "notified"
         /\ worker[t].freeze
         /\ ~is_closing
         /\ \A c \in Components : ~enabled[c]
         /\ \E u \in Workers \ {t} : InList(_threads', u) /\ worker'[u].freeze)
        => \A c \in Components : ~enabled'[c]]_vars

\* C18 as stated: whenever no OnUpdate invocation is in progress the guard is false.
C18_GuardClearWhenIdle == upd = <<>> => ~_in_update

====
